---------------------------- MODULE Spec2Model ----------------------------
(***************************************************************************)
(* A model of src/src/main.cpp: the ESP32 WiFi diagnostic access point.    *)
(*                                                                         *)
(* Two execution contexts exist.  The main task runs loop(), which calls   *)
(* server.handleClient(); that call accepts at most one waiting            *)
(* connection, parses its request, runs the handler registered for it and  *)
(* returns.  The WiFi event task runs onWiFiEvent() whenever the radio     *)
(* reports an event, at any point of the main task's progress.             *)
(*                                                                         *)
(* 32-bit unsigned values (uint32_t, size_t, unsigned long) are kept as    *)
(* two 16-bit limbs, low limb first, so that wrap-around at 2^32 is what   *)
(* the arithmetic does.  Text (query arguments, decimal numbers, the JSON  *)
(* documents) is kept as sequences of one-character strings and tokens.    *)
(***************************************************************************)
EXTENDS Integers, Sequences, FiniteSets, TLC

VARIABLES
    disconnect_count,   \* main.cpp:35  volatile uint32_t, as limbs
    delivered,          \* history: disconnect events the callback has handled (3 limbs, never wraps)
    last_event,         \* history: the event of the latest callback invocation
    nEvents,            \* history: callback invocations so far (bounds the exploration)
    uptime,             \* platform: milliseconds since boot, unbounded (3 limbs)
    nTicks,             \* history: clock advances so far (bounds the exploration)
    backlog,            \* platform: connections waiting to be accepted by the server
    running,            \* the handlers entered and not yet returned, outermost first
    pc,                 \* position of the main task
    req,                \* the request parsed by handleClient
    resp,               \* what server.send() put on the wire for the current request
    json,               \* the String a handler is building
    read_at,            \* history: value of `delivered` when handleStatus read the counter
    pings,              \* history: the bodies returned by GET /api/ping, oldest first
    scan_n,             \* handleScan: the int returned by WiFi.scanNetworks()
    scan_list,          \* platform: the scan result buffer (the networks found)
    scan_held,          \* platform: TRUE while the scan result buffer is allocated
    scan_log,           \* history: the order of "send" and "delete" in the current handleScan
    size,               \* handleDownload: size_t size
    sent,               \* handleDownload: size_t sent
    toSend,             \* handleDownload: size_t toSend of the current iteration
    client_connected,   \* platform: the current connection is open
    client_ready,       \* platform: the connection's transmit buffer has room
    nShort,             \* history: short writes in the current download (bounds the exploration)
    wire_len,           \* history: body bytes the connection accepted for the current request
    wire_vals,          \* history: the distinct byte values among them
    max_write           \* history: the largest length passed to client.write()

vars == << disconnect_count, delivered, last_event, nEvents, uptime, nTicks,
           backlog, running, pc, req, resp, json, read_at, pings,
           scan_n, scan_list, scan_held, scan_log,
           size, sent, toSend, client_connected, client_ready, nShort,
           wire_len, wire_vals, max_write >>

eventVars    == << disconnect_count, delivered, last_event, nEvents >>
clockVars    == << uptime, nTicks >>
scanVars     == << scan_n, scan_list, scan_held, scan_log >>
downloadVars == << size, sent, toSend, nShort, wire_len, wire_vals, max_write >>
clientVars   == << client_connected, client_ready >>

---------------------------------------------------------------------------
(* Bounds of the exploration.                                              *)

MaxEvents  == 4     \* callback invocations explored
MaxTicks   == 3     \* clock advances explored
MaxPings   == 2     \* ping results remembered
MaxBacklog == 1     \* connections that may wait at once
MaxNets    == 2     \* networks a scan may report
MaxShort   == 1     \* short writes explored per download
MaxChunks  == 258   \* full buffers a connection takes before the peer resets it

---------------------------------------------------------------------------
(* Fixed-width unsigned arithmetic on limbs.                               *)

Base == 2^16

RECURSIVE LimbsOf(_, _)
\* The w-limb representation of a natural number n < 2^31.
LimbsOf(n, w) ==
    IF w = 0 THEN << >> ELSE << n % Base >> \o LimbsOf(n \div Base, w - 1)

Zero32 == << 0, 0 >>
One32  == << 1, 0 >>
Max32  == << Base - 1, Base - 1 >>

RECURSIVE AddCarry(_, _, _, _)
AddCarry(a, b, i, c) ==
    IF i > Len(a) THEN << >>
    ELSE LET s == a[i] + b[i] + c
         IN  << s % Base >> \o AddCarry(a, b, i + 1, s \div Base)

\* a + b on limb sequences of equal length w, the carry out of the top limb
\* dropped: addition modulo Base^w.
AddLimbs(a, b) == AddCarry(a, b, 1, 0)

RECURSIVE SubBorrow(_, _, _, _)
SubBorrow(a, b, i, c) ==
    IF i > Len(a) THEN << >>
    ELSE LET d == a[i] - b[i] - c
         IN  << d % Base >> \o SubBorrow(a, b, i + 1, IF d < 0 THEN 1 ELSE 0)

\* a - b modulo Base^w.
SubLimbs(a, b) == SubBorrow(a, b, 1, 0)

RECURSIVE LessFrom(_, _, _)
LessFrom(a, b, i) ==
    IF i = 0 THEN FALSE
    ELSE IF a[i] # b[i] THEN a[i] < b[i]
    ELSE LessFrom(a, b, i - 1)

\* a < b as unsigned numbers of equal length.
LessLimbs(a, b) == LessFrom(a, b, Len(a))

IsZero(a) == \A i \in 1..Len(a) : a[i] = 0

\* The low 32 bits of a wider number: the conversion to uint32_t.
Low32(a) == SubSeq(a, 1, 2)

\* A 32-bit number widened to three limbs.
Wide(a) == a \o << 0 >>

\* Whether a three-limb number is below 2^32.
Fits32(a) == a[3] = 0

---------------------------------------------------------------------------
(* Decimal text: String(unsigned long) and friends.                        *)

DigitChars == << "0", "1", "2", "3", "4", "5", "6", "7", "8", "9" >>

RECURSIVE DivStep(_, _, _, _)
\* Long division by d (d <= 1000) of limbs 1..i of a, with r carried in
\* from the limbs above.
DivStep(a, i, r, d) ==
    IF i = 0 THEN [q |-> << >>, r |-> r]
    ELSE LET cur  == r * Base + a[i]
             rest == DivStep(a, i - 1, cur % d, d)
         IN  [q |-> Append(rest.q, cur \div d), r |-> rest.r]

\* a / d, unsigned integer division.
DivLimbs(a, d) == DivStep(a, Len(a), 0, d).q

\* The decimal digits of a number, most significant first, no leading zero:
\* the last digit is the remainder by ten, the digits before it are those
\* of the quotient.
DecimalOf[a \in Seq(Nat)] ==
    LET d == DivStep(a, Len(a), 0, 10)
    IN  IF IsZero(d.q) THEN << DigitChars[d.r + 1] >>
        ELSE Append(DecimalOf[d.q], DigitChars[d.r + 1])

Decimal(a) == DecimalOf[a]


RECURSIVE DecimalLess(_, _, _)
DecimalLess(a, b, i) ==
    IF i > Len(a) THEN FALSE
    ELSE LET x == CHOOSE k \in 1..10 : DigitChars[k] = a[i]
             y == CHOOSE k \in 1..10 : DigitChars[k] = b[i]
         IN  IF x # y THEN x < y ELSE DecimalLess(a, b, i + 1)

\* a < b for two decimal texts without leading zeros, as a reader of the
\* response compares them.
DecimalLT(a, b) ==
    \/ Len(a) < Len(b)
    \/ Len(a) = Len(b) /\ DecimalLess(a, b, 1)

---------------------------------------------------------------------------
(* Requests, responses and the route table.                                *)

Methods == { "GET", "POST", "DELETE" }

Paths == { "/", "/api/status", "/api/scan", "/api/ping", "/api/download",
           "/api/upload", "/api/clients", "/foo" }

\* A parsed request.  hasSize and sizeArg are server.hasArg("size") and
\* server.arg("size").
Request(m, p, h, a) == [method |-> m, path |-> p, hasSize |-> h, sizeArg |-> a]

NoRequest == Request("", "", FALSE, << >>)

\* Requests without a size argument, one per method and path.
PlainRequests == { Request(m, p, FALSE, << >>) : m \in Methods, p \in Paths }

NoResponse == [code |-> 0, ctype |-> "", clen |-> << >>, body |-> << >>]

\* The Content-Length the library derives from the content passed to send().
AutoLength == << "content.length()" >>

\* server.send(code, type, content) with no content length set beforehand.
Send(code, ctype, content) ==
    [code |-> code, ctype |-> ctype, clen |-> AutoLength, body |-> content]

\* setup(): the server.on(...) registrations, in order.
Routes == <<
    [uri |-> "/",             method |-> "GET",  fn |-> "handleRoot"],
    [uri |-> "/api/status",   method |-> "GET",  fn |-> "handleStatus"],
    [uri |-> "/api/scan",     method |-> "GET",  fn |-> "handleScan"],
    [uri |-> "/api/ping",     method |-> "GET",  fn |-> "handlePing"],
    [uri |-> "/api/download", method |-> "GET",  fn |-> "handleDownload"],
    [uri |-> "/api/upload",   method |-> "POST", fn |-> "handleUpload"],
    [uri |-> "/api/clients",  method |-> "GET",  fn |-> "handleClients"] >>

\* A route registered with the uri alone answers every method.
CanHandleAnyMethod(route, m, p) == route.uri = p

\* server.on(uri, method, fn): the route answers that method on that path.
CanHandle(route, m, p) == route.method = m /\ route.uri = p

\* The function handleClient calls for a request: the first route that can
\* handle it, or the one given to server.onNotFound().
RouteOf(m, p) ==
    IF \E i \in 1..Len(Routes) : CanHandle(Routes[i], m, p)
    THEN LET i == CHOOSE j \in 1..Len(Routes) :
                     /\ CanHandle(Routes[j], m, p)
                     /\ \A k \in 1..(j - 1) : ~CanHandle(Routes[k], m, p)
         IN  Routes[i].fn
    ELSE "handleNotFound"

---------------------------------------------------------------------------
(* The state after setup().                                                *)

Init ==
    /\ disconnect_count = Zero32
    /\ delivered = << 0, 0, 0 >>
    /\ last_event = "none"
    /\ nEvents = 0
    /\ uptime = << 0, 0, 0 >>
    /\ nTicks = 0
    /\ backlog = 0
    /\ running = << >>
    /\ pc = "poll"
    /\ req = NoRequest
    /\ resp = NoResponse
    /\ json = << >>
    /\ read_at = << 0, 0, 0 >>
    /\ pings = << >>
    /\ scan_n = 0
    /\ scan_list = << >>
    /\ scan_held = FALSE
    /\ scan_log = << >>
    /\ size = Zero32
    /\ sent = Zero32
    /\ toSend = Zero32
    /\ client_connected = FALSE
    /\ client_ready = FALSE
    /\ nShort = 0
    /\ wire_len = Zero32
    /\ wire_vals = {}
    /\ max_write = Zero32

---------------------------------------------------------------------------
(* The WiFi event task.                                                    *)

EventTypes == { "AP_STADISCONNECTED", "STA_DISCONNECTED",
                "AP_STACONNECTED", "STA_CONNECTED", "SCAN_DONE" }

\* The events that mean a station (peer or self) disconnected.
DisconnectEvents == { "AP_STADISCONNECTED", "STA_DISCONNECTED" }

\* A callback that tests for the access point's event alone.
IsCountedApOnly(event) == event = "AP_STADISCONNECTED"

\* main.cpp:399, the condition of onWiFiEvent.
IsCounted(event) ==
    event = "AP_STADISCONNECTED" \/ event = "STA_DISCONNECTED"

\* A counter kept in 16 bits: the carry into the high limb is lost.
Increment16(c) == << (c[1] + 1) % Base, c[2] >>

\* main.cpp:400, disconnect_count++ on a uint32_t.
Increment(c) == AddLimbs(c, One32)

\* One invocation of the callback.  The event task is the counter's only
\* writer and runs one callback at a time, so the read-modify-write of the
\* volatile word loses no update; the main task sees the old or the new word.
onWiFiEvent(event) ==
    /\ nEvents < MaxEvents
    /\ disconnect_count' = IF IsCounted(event) THEN Increment(disconnect_count)
                           ELSE disconnect_count
    /\ delivered' = IF event \in DisconnectEvents
                    THEN AddLimbs(delivered, << 1, 0, 0 >>) ELSE delivered
    /\ last_event' = event
    /\ nEvents' = nEvents + 1
    /\ UNCHANGED << clockVars, backlog, running, pc, req, resp, json, read_at,
                    pings, scanVars, downloadVars, clientVars >>

\* The length of a long run of disconnect events: 2^32 - 2.
RunLength == << Base - 2, Base - 1 >>

\* RunLength invocations of the callback in a row, all with the same
\* disconnect event and with no step of the main task in between: the
\* RunLength-fold composition of the increment.  The run is taken only where
\* it does not carry the counter past 2^32 - 1, so that the wrapping
\* increment is always a step of onWiFiEvent itself.
onWiFiEventRun(event) ==
    /\ nEvents < MaxEvents
    /\ event \in DisconnectEvents
    /\ ~LessLimbs(SubLimbs(Max32, RunLength), disconnect_count)
    /\ disconnect_count' = IF IsCounted(event)
                           THEN AddLimbs(disconnect_count, RunLength)
                           ELSE disconnect_count
    /\ delivered' = AddLimbs(delivered, Wide(RunLength))
    /\ last_event' = event
    /\ nEvents' = nEvents + 1
    /\ UNCHANGED << clockVars, backlog, running, pc, req, resp, json, read_at,
                    pings, scanVars, downloadVars, clientVars >>

---------------------------------------------------------------------------
(* The main task: loop() and server.handleClient().                        *)

\* A client opens a connection; it waits until handleClient accepts it.
Connect ==
    /\ backlog < MaxBacklog
    /\ backlog' = backlog + 1
    /\ UNCHANGED << eventVars, clockVars, running, pc, req, resp, json, read_at,
                    pings, scanVars, downloadVars, clientVars >>

\* A dispatcher that accepts a connection wherever the main task stands.
CanDispatchAlways == TRUE

\* loop() calls handleClient() again only after the previous call returned.
CanDispatch == pc = "poll"

Top(stack) == stack[Len(stack)]

Pop(stack) == SubSeq(stack, 1, Len(stack) - 1)

InHandler(fn) == running # << >> /\ Top(running) = fn

\* server.handleClient(), up to the call of the handler: accept one waiting
\* connection, parse its request (one of reqs) and select the handler.
handleClient(reqs) ==
    /\ CanDispatch
    /\ backlog > 0
    /\ \E r \in reqs :
        /\ req' = r
        /\ running' = Append(running, RouteOf(r.method, r.path))
    /\ backlog' = backlog - 1
    /\ pc' = "call"
    /\ resp' = NoResponse
    /\ json' = << >>
    /\ client_connected' = TRUE
    /\ client_ready' = TRUE
    /\ size' = Zero32
    /\ sent' = Zero32
    /\ toSend' = Zero32
    /\ nShort' = 0
    /\ wire_len' = Zero32
    /\ wire_vals' = {}
    /\ max_write' = Zero32
    /\ scan_log' = << >>
    /\ UNCHANGED << eventVars, clockVars, read_at, pings,
                    scan_n, scan_list, scan_held >>

\* The handler's return to handleClient, and handleClient's to loop().
Return ==
    /\ running' = Pop(running)
    /\ pc' = "poll"

---------------------------------------------------------------------------
(* handleStatus, main.cpp:419-436.                                         *)

\* Lines 420-434: the platform values are read and appended to json.  The
\* fields modelled are the two computed from program state; ip, mac, heap,
\* tx_power, cpu_freq and tcp_rexmit are platform reads copied as they are.
handleStatus_build ==
    /\ pc = "call" /\ InHandler("handleStatus")
    /\ json' = [uptime      |-> Decimal(DivLimbs(Low32(uptime), 1000)),
                disconnects |-> Decimal(disconnect_count)]
    /\ read_at' = delivered
    /\ pc' = "status_send"
    /\ UNCHANGED << eventVars, clockVars, backlog, running, req, resp, pings,
                    scanVars, downloadVars, clientVars >>

\* Line 435: server.send(200, "application/json", json), and the return.
handleStatus_send ==
    /\ pc = "status_send" /\ InHandler("handleStatus")
    /\ resp' = Send(200, "application/json", json)
    /\ Return
    /\ UNCHANGED << eventVars, clockVars, backlog, req, json, read_at, pings,
                    scanVars, downloadVars, clientVars >>

StatusRequests == { Request("GET", "/api/status", FALSE, << >>) }

NextEvents ==
    \/ \E e \in EventTypes : onWiFiEvent(e)
    \/ \E e \in EventTypes : onWiFiEventRun(e)
    \/ Connect
    \/ handleClient(StatusRequests)
    \/ handleStatus_build
    \/ handleStatus_send

\* The event task against the main task serving GET /api/status.
SpecEvents == Init /\ [][NextEvents]_vars

---------------------------------------------------------------------------
(* C1 and C7: the disconnect counter.                                      *)

StatusAnswered ==
    pc = "poll" /\ req.path = "/api/status" /\ req.method = "GET" /\ resp.code = 200

\* C1 as stated: the "disconnects" value of every status response is the
\* decimal text of N, the number of disconnect events delivered to the
\* callback before the handler read the counter.
C1_DisconnectsEqualN ==
    StatusAnswered => resp.body.disconnects = Decimal(read_at)

\* C1 as amended: the "disconnects" value of every status response is the
\* decimal text of N modulo 2^32 (of N itself while N < 2^32), N being the
\* number of disconnect events delivered to the callback before the handler
\* read the counter; and the counter changes only in a step of the callback
\* that delivers a disconnect event, never in a step of a request handler or
\* for an event of another type.
C1_DisconnectsEqualNMod32 ==
    /\ [](StatusAnswered => resp.body.disconnects = Decimal(Low32(read_at)))
    /\ [](disconnect_count = Low32(delivered))
    /\ [][disconnect_count' # disconnect_count
            => /\ nEvents' # nEvents
               /\ last_event' \in DisconnectEvents
               /\ UNCHANGED << pc, running, resp >>]_vars

\* A status response that reports the counter after it wrapped, with an
\* event of another type delivered last.
C1_Witness ==
    /\ StatusAnswered
    /\ ~Fits32(read_at)
    /\ resp.body.disconnects = << "0" >>
    /\ last_event = "SCAN_DONE"

\* C7 as stated: no step decreases the counter (kept modulo 2^32), and the
\* counter is 0 only while no disconnect event has been delivered.
C7_NeverDecreases ==
    /\ [][~LessLimbs(disconnect_count', disconnect_count)]_vars
    /\ [](IsZero(disconnect_count) => IsZero(delivered))

\* C7 as amended: the only step that decreases the counter is the increment
\* that wraps it from 2^32 - 1 to 0; while fewer than 2^32 disconnect events
\* have been delivered no step decreases it and it is 0 only before the
\* first of them; later it is 0 exactly when the number delivered is a
\* multiple of 2^32.
C7_DecreasesOnlyOnWrap ==
    /\ [][LessLimbs(disconnect_count', disconnect_count)
            => /\ disconnect_count = Max32
               /\ disconnect_count' = Zero32
               /\ ~Fits32(delivered')]_vars
    /\ [](IsZero(disconnect_count) <=> IsZero(Low32(delivered)))
    /\ [](Fits32(delivered) /\ IsZero(disconnect_count) => IsZero(delivered))

\* The counter has wrapped: 2^32 disconnect events, counter back at 0.
C7_Witness ==
    /\ IsZero(disconnect_count)
    /\ delivered = << 0, 0, 1 >>

---------------------------------------------------------------------------
(* The clock and handlePing, main.cpp:466-468.                             *)

\* One minute and 2^32 - 2 milliseconds (about 49.7 days), in milliseconds.
Minute   == LimbsOf(60000, 3)
LongWait == Wide(RunLength)

TickSteps == { Minute, LongWait }

\* Time passes, whatever the two tasks are doing.
Tick(dt) ==
    /\ nTicks < MaxTicks
    /\ uptime' = AddLimbs(uptime, dt)
    /\ nTicks' = nTicks + 1
    /\ UNCHANGED << eventVars, backlog, running, pc, req, resp, json, read_at,
                    pings, scanVars, downloadVars, clientVars >>

\* A tick count kept in 16 bits.
Millis16 == << uptime[1], 0 >>

\* millis(): the milliseconds since boot as unsigned long, 32 bits on this
\* platform.
Millis == Low32(uptime)

\* server.send(200, "text/plain", String(millis())), and the return.
handlePing ==
    /\ pc = "call" /\ InHandler("handlePing")
    /\ resp' = Send(200, "text/plain", Decimal(Millis))
    /\ pings' = IF Len(pings) < MaxPings
                THEN Append(pings, [body |-> Decimal(Millis), at |-> uptime])
                ELSE pings
    /\ Return
    /\ UNCHANGED << eventVars, clockVars, backlog, req, json, read_at,
                    scanVars, downloadVars, clientVars >>

PingRequests == { Request("GET", "/api/ping", FALSE, << >>) }

NextPing ==
    \/ \E dt \in TickSteps : Tick(dt)
    \/ Connect
    \/ handleClient(PingRequests)
    \/ handlePing

\* The clock against the main task serving GET /api/ping.
SpecPing == Init /\ [][NextPing]_vars

\* C8 as stated: of any two ping responses, the later one's value is not
\* below the earlier one's.
C8_PingNonDecreasing ==
    \A i, j \in 1..Len(pings) :
        i < j => ~DecimalLT(pings[j].body, pings[i].body)

\* C8 as amended: of any two ping responses handled within the same 2^32 ms
\* of uptime (the 32-bit tick count did not wrap between them), the later
\* one's value is not below the earlier one's; each value is the decimal
\* text of the uptime in milliseconds modulo 2^32.
C8_PingNonDecreasingUntilWrap ==
    /\ \A i, j \in 1..Len(pings) :
          i < j /\ pings[i].at[3] = pings[j].at[3]
              => ~DecimalLT(pings[j].body, pings[i].body)
    /\ \A i \in 1..Len(pings) : pings[i].body = Decimal(Low32(pings[i].at))

\* Two pings a minute apart, before any wrap: 60000 then 120000.
C8_Witness ==
    /\ Len(pings) = 2
    /\ pings[1].body = << "6", "0", "0", "0", "0" >>
    /\ pings[2].body = << "1", "2", "0", "0", "0", "0" >>
    /\ pc = "poll"

---------------------------------------------------------------------------
(* The handlers that only send: main.cpp:411-413, 512-514, 520-541,        *)
(* 546-548.                                                                *)

handleRoot ==
    /\ pc = "call" /\ InHandler("handleRoot")
    /\ resp' = Send(200, "text/html", << "index_html" >>)
    /\ Return
    /\ UNCHANGED << eventVars, clockVars, backlog, req, json, read_at, pings,
                    scanVars, downloadVars, clientVars >>

handleUpload ==
    /\ pc = "call" /\ InHandler("handleUpload")
    /\ resp' = Send(200, "text/plain", << "OK" >>)
    /\ Return
    /\ UNCHANGED << eventVars, clockVars, backlog, req, json, read_at, pings,
                    scanVars, downloadVars, clientVars >>

\* The station list is read from the radio; with no station associated the
\* document is "[]", the one case modelled.
handleClients ==
    /\ pc = "call" /\ InHandler("handleClients")
    /\ resp' = Send(200, "application/json", << "[", "]" >>)
    /\ Return
    /\ UNCHANGED << eventVars, clockVars, backlog, req, json, read_at, pings,
                    scanVars, downloadVars, clientVars >>

handleNotFound ==
    /\ pc = "call" /\ InHandler("handleNotFound")
    /\ resp' = Send(404, "text/plain", << "404: Not Found" >>)
    /\ Return
    /\ UNCHANGED << eventVars, clockVars, backlog, req, json, read_at, pings,
                    scanVars, downloadVars, clientVars >>

---------------------------------------------------------------------------
(* handleScan, main.cpp:442-460.                                           *)

\* main.cpp:381-392.
translateEncryptionType(t) ==
    CASE t = "WIFI_AUTH_OPEN"            -> "Open"
      [] t = "WIFI_AUTH_WEP"             -> "WEP"
      [] t = "WIFI_AUTH_WPA_PSK"         -> "WPA_PSK"
      [] t = "WIFI_AUTH_WPA2_PSK"        -> "WPA2_PSK"
      [] t = "WIFI_AUTH_WPA_WPA2_PSK"    -> "WPA_WPA2_PSK"
      [] t = "WIFI_AUTH_WPA2_ENTERPRISE" -> "WPA2_ENTERPRISE"
      [] t = "WIFI_AUTH_WPA3_PSK"        -> "WPA3_PSK"
      [] OTHER                           -> "Unknown"

Q == "\""

\* The networks in range.  An SSID is up to 32 arbitrary bytes chosen by
\* whoever runs the access point; it is kept as tokens, the JSON punctuation
\* one token each.  The third SSID is the 13 bytes  "},{"ssid":"x .
Networks == {
    [ssid |-> << "Home" >>, rssi |-> "-50", channel |-> "6",
     auth |-> "WIFI_AUTH_WPA2_PSK"],
    [ssid |-> << >>, rssi |-> "-71", channel |-> "1",
     auth |-> "WIFI_AUTH_OPEN"],
    [ssid |-> << Q, "}", ",", "{", Q, "ssid", Q, ":", Q, "x" >>,
     rssi |-> "-64", channel |-> "11", auth |-> "WIFI_AUTH_WAPI_PSK"] }

\* What WiFi.scanNetworks() may return: WIFI_SCAN_FAILED (-2) with no
\* result, or the number of networks found with their records.
ScanOutcomes ==
    { [n |-> -2, list |-> << >>] } \cup
    UNION { { [n |-> k, list |-> l] : l \in [1..k -> Networks] } : k \in 0..MaxNets }

\* Lines 449-454: one network appended to json.
EntryText(net) ==
    << "{", Q, "ssid", Q, ":", Q >> \o net.ssid \o << Q, ",",
       Q, "rssi", Q, ":", net.rssi, ",",
       Q, "channel", Q, ":", net.channel, ",",
       Q, "auth", Q, ":", Q, translateEncryptionType(net.auth), Q, "}" >>

RECURSIVE ScanText(_, _, _)
\* Lines 447-455: the loop over i < n, from i on.
ScanText(list, i, n) ==
    IF ~(i < n) THEN << >>
    ELSE (IF i > 0 THEN << "," >> ELSE << >>) \o EntryText(list[i + 1])
         \o ScanText(list, i + 1, n)

\* Lines 444-456: the blocking scan, then the document.
handleScan_scan ==
    /\ pc = "call" /\ InHandler("handleScan")
    /\ \E o \in ScanOutcomes :
        /\ scan_n' = o.n
        /\ scan_list' = o.list
        /\ json' = << "[" >> \o ScanText(o.list, 0, o.n) \o << "]" >>
    /\ scan_held' = TRUE
    /\ pc' = "scan_send"
    /\ UNCHANGED << eventVars, clockVars, backlog, running, req, resp, read_at,
                    pings, scan_log, downloadVars, clientVars >>

\* Line 458.
handleScan_send ==
    /\ pc = "scan_send" /\ InHandler("handleScan")
    /\ resp' = Send(200, "application/json", json)
    /\ scan_log' = Append(scan_log, "send")
    /\ pc' = "scan_delete"
    /\ UNCHANGED << eventVars, clockVars, backlog, running, req, json, read_at,
                    pings, scan_n, scan_list, scan_held, downloadVars, clientVars >>

\* Line 459, WiFi.scanDelete(), and the return.
handleScan_delete ==
    /\ pc = "scan_delete" /\ InHandler("handleScan")
    /\ scan_held' = FALSE
    /\ scan_list' = << >>
    /\ scan_log' = Append(scan_log, "delete")
    /\ Return
    /\ UNCHANGED << eventVars, clockVars, backlog, req, resp, json, read_at,
                    pings, scan_n, downloadVars, clientVars >>

RECURSIVE CountElements(_, _, _, _, _)
\* The elements of the top-level array of a well-formed JSON document, from
\* token i on: inStr inside a string, depth the nesting, expect TRUE where an
\* element of the top-level array may begin.
CountElements(doc, i, depth, inStr, expect) ==
    IF i > Len(doc) THEN 0
    ELSE LET t == doc[i] IN
         IF inStr
         THEN CountElements(doc, i + 1, depth, t # Q, FALSE)
         ELSE IF t = "[" \/ t = "{"
         THEN (IF expect THEN 1 ELSE 0)
              + CountElements(doc, i + 1, depth + 1, FALSE, depth = 0 /\ t = "[")
         ELSE IF t = "]" \/ t = "}"
         THEN CountElements(doc, i + 1, depth - 1, FALSE, FALSE)
         ELSE IF t = ","
         THEN CountElements(doc, i + 1, depth, FALSE, depth = 1)
         ELSE (IF expect THEN 1 ELSE 0)
              + CountElements(doc, i + 1, depth, t = Q, FALSE)

\* data.length after res.json() in the page's script (main.cpp:247-251).
ArrayLength(doc) == CountElements(doc, 1, 0, FALSE, FALSE)

---------------------------------------------------------------------------
(* handleDownload, main.cpp:475-506.                                       *)

BufSize  == 4096    \* sizeof(buf)
FillByte == 170     \* 0xAA

\* 1024 * 1024, the initial value of size.
DefaultSize == LimbsOf(1024 * 1024, 2)

\* A default of 1000 * 1000.
DefaultSizeDecimal == LimbsOf(1000 * 1000, 2)

\* LONG_MAX and -LONG_MIN of the 32-bit long that String::toInt() returns.
LongMax    == << Base - 1, (Base \div 2) - 1 >>
LongMinMag == << 0, Base \div 2 >>

IsSpace(c) == c = " "

IsDigit(c) == \E k \in 1..10 : DigitChars[k] = c

DigitValue(c) == (CHOOSE k \in 1..10 : DigitChars[k] = c) - 1

\* acc * 10 + d on three limbs (acc < 2^32, so nothing is lost).
TimesTenPlus(acc, d) ==
    LET l1 == acc[1] * 10 + d
        l2 == acc[2] * 10 + (l1 \div Base)
        l3 == acc[3] * 10 + (l2 \div Base)
    IN  << l1 % Base, l2 % Base, l3 % Base >>

\* strtol's digit loop over the characters of s.str from s.i on: the
\* magnitude so far is s.acc, at most s.limit; once a digit would carry it
\* past s.limit it stays there.
AccumulateOf[s \in [str : Seq(STRING), i : Nat, acc : Seq(Nat), limit : Seq(Nat)]] ==
    IF s.i > Len(s.str) \/ ~IsDigit(s.str[s.i]) THEN s.acc
    ELSE LET next == TimesTenPlus(Wide(s.acc), DigitValue(s.str[s.i]))
         IN  IF ~Fits32(next) \/ LessLimbs(s.limit, Low32(next))
             THEN AccumulateOf[[s EXCEPT !.i = s.i + 1, !.acc = s.limit]]
             ELSE AccumulateOf[[s EXCEPT !.i = s.i + 1, !.acc = Low32(next)]]

Accumulate(str, i, acc, limit) ==
    AccumulateOf[[str |-> str, i |-> i, acc |-> acc, limit |-> limit]]

RECURSIVE SkipSpaces(_, _)
SkipSpaces(str, i) ==
    IF i <= Len(str) /\ IsSpace(str[i]) THEN SkipSpaces(str, i + 1) ELSE i

\* String::toInt(): atol(), that is strtol(s, NULL, 10) of the C library:
\* leading white space, an optional sign, then digits up to the first other
\* character; no digits give 0, a value out of range LONG_MAX or LONG_MIN.
\* The result is the sign and the magnitude.
ToInt(str) ==
    LET i   == SkipSpaces(str, 1)
        neg == i <= Len(str) /\ str[i] = "-"
        j   == IF i <= Len(str) /\ (str[i] = "-" \/ str[i] = "+") THEN i + 1 ELSE i
        mag == Accumulate(str, j, Zero32, IF neg THEN LongMinMag ELSE LongMax)
    IN  [neg |-> neg /\ ~IsZero(mag), mag |-> mag]

\* The conversion of a long to size_t: two's complement on 32 bits.
ToSizeT(v) == IF v.neg THEN SubLimbs(Zero32, v.mag) ELSE v.mag

\* A handler that falls back to the default when the argument parses as 0.
RequestedSizeOrDefault(r) ==
    IF r.hasSize /\ ~IsZero(ToSizeT(ToInt(r.sizeArg)))
    THEN ToSizeT(ToInt(r.sizeArg))
    ELSE DefaultSize

\* A handler whose default is 1000 * 1000.
RequestedSizeDecimalDefault(r) ==
    IF r.hasSize THEN ToSizeT(ToInt(r.sizeArg)) ELSE DefaultSizeDecimal

\* Lines 476-479: size after the test of server.hasArg("size").
RequestedSize(r) ==
    IF r.hasSize THEN ToSizeT(ToInt(r.sizeArg)) ELSE DefaultSize

\* CONTENT_LENGTH_UNKNOWN and CONTENT_LENGTH_NOT_SET of WebServer.h.
ContentLengthUnknown == Max32
ContentLengthNotSet  == SubLimbs(Max32, One32)

\* Lines 482-483: server.setContentLength(n) then server.send(200, type, "").
\* The header names n as the Content-Length, except for the two values the
\* library reserves: chunked encoding, and the length of the (empty) content.
SendWithLength(code, ctype, n) ==
    [code |-> code, ctype |-> ctype, body |-> << >>,
     clen |-> IF n = ContentLengthUnknown THEN << "chunked" >>
              ELSE IF n = ContentLengthNotSet THEN Decimal(Zero32)
              ELSE Decimal(n)]

\* Lines 476-491: the size, the header, the buffer, sent = 0.
handleDownload_begin ==
    /\ pc = "call" /\ InHandler("handleDownload")
    /\ size' = RequestedSize(req)
    /\ resp' = SendWithLength(200, "application/octet-stream", RequestedSize(req))
    /\ sent' = Zero32
    /\ pc' = "dl_check"
    /\ UNCHANGED << eventVars, clockVars, backlog, running, req, json, read_at,
                    pings, scanVars, toSend, nShort, wire_len, wire_vals,
                    max_write, clientVars >>

\* A loop that goes on while the client is connected, whatever was sent.
LoopConditionNoCount == client_connected

\* A loop that goes on until everything was sent, whatever the connection.
LoopConditionCountOnly == LessLimbs(sent, size)

\* Line 493: sent < size && client.connected().
LoopCondition == LessLimbs(sent, size) /\ client_connected

\* Line 493: the loop condition; the handler returns when it is false.
handleDownload_check ==
    /\ pc = "dl_check" /\ InHandler("handleDownload")
    /\ IF LoopCondition
       THEN /\ pc' = "dl_write"
            /\ UNCHANGED running
       ELSE Return
    /\ UNCHANGED << eventVars, clockVars, backlog, req, resp, json, read_at,
                    pings, scanVars, downloadVars, clientVars >>

\* A chunk that is always the whole buffer.
ChunkLenWholeBuffer == LimbsOf(BufSize, 2)

\* Line 494: (size - sent) > sizeof(buf) ? sizeof(buf) : (size - sent).
ChunkLen ==
    IF LessLimbs(LimbsOf(BufSize, 2), SubLimbs(size, sent))
    THEN LimbsOf(BufSize, 2)
    ELSE SubLimbs(size, sent)

\* The most body bytes a connection takes before the peer resets it.
PeerLimit == LimbsOf(MaxChunks * BufSize, 2)

\* The lengths below n that a short write may accept.
ShortWrites(n) == { w \in { One32 } : LessLimbs(w, n) }

\* What client.write(buf, n) may return, with the connection's state after
\* it: 0 on a closed connection or a full transmit buffer; otherwise n, or
\* less than n when the buffer has room for a part only; and 0 with the
\* connection closed when the peer has reset it.
WriteOutcomes(n) ==
    IF ~client_connected \/ ~client_ready
    THEN { [written |-> Zero32, connected |-> client_connected, short |-> 0] }
    ELSE IF LessLimbs(PeerLimit, AddLimbs(wire_len, n))
    THEN { [written |-> Zero32, connected |-> FALSE, short |-> 0] }
    ELSE { [written |-> n, connected |-> TRUE, short |-> 0] } \cup
         { [written |-> w, connected |-> TRUE, short |-> 1] :
               w \in IF nShort < MaxShort THEN ShortWrites(n) ELSE {} }

\* Lines 494-500: one write of the buffer's first toSend bytes, all FillByte.
handleDownload_write ==
    /\ pc = "dl_write" /\ InHandler("handleDownload")
    /\ toSend' = ChunkLen
    /\ max_write' = IF LessLimbs(max_write, ChunkLen) THEN ChunkLen ELSE max_write
    /\ \E o \in WriteOutcomes(ChunkLen) :
        /\ client_connected' = o.connected
        /\ nShort' = nShort + o.short
        /\ IF ~IsZero(o.written)
           THEN /\ sent' = AddLimbs(sent, o.written)
                /\ wire_len' = AddLimbs(wire_len, o.written)
                /\ wire_vals' = wire_vals \cup { FillByte }
                /\ pc' = "dl_check"
           ELSE /\ pc' = "dl_delay"
                /\ UNCHANGED << sent, wire_len, wire_vals >>
    /\ UNCHANGED << eventVars, clockVars, backlog, running, req, resp, json,
                    read_at, pings, scanVars, size, client_ready >>

\* A handler that gives up after a write that accepted nothing.
handleDownload_giveUp ==
    /\ pc = "dl_delay" /\ InHandler("handleDownload")
    /\ Return
    /\ UNCHANGED << eventVars, clockVars, backlog, req, resp, json, read_at,
                    pings, scanVars, downloadVars, clientVars >>

\* Line 503: delay(1), then the loop condition again.  The time that passes
\* is the clock's (Tick); the handler changes nothing while it waits.
handleDownload_delay ==
    /\ pc = "dl_delay" /\ InHandler("handleDownload")
    /\ pc' = "dl_check"
    /\ UNCHANGED << eventVars, clockVars, backlog, running, req, resp, json,
                    read_at, pings, scanVars, downloadVars, clientVars >>

InDownload == running # << >> /\ Top(running) = "handleDownload"

InDownloadLoop == InDownload /\ pc \in { "dl_check", "dl_write", "dl_delay" }

\* The connection's transmit buffer fills up: the peer has stopped reading.
ClientStall ==
    /\ InDownloadLoop /\ client_connected /\ client_ready
    /\ client_ready' = FALSE
    /\ UNCHANGED << eventVars, clockVars, backlog, running, pc, req, resp, json,
                    read_at, pings, scanVars, downloadVars, client_connected >>

\* The peer reads again and the transmit buffer drains.
ClientDrain ==
    /\ InDownloadLoop /\ client_connected /\ ~client_ready
    /\ client_ready' = TRUE
    /\ UNCHANGED << eventVars, clockVars, backlog, running, pc, req, resp, json,
                    read_at, pings, scanVars, downloadVars, client_connected >>

\* The peer closes the connection.
ClientDisconnect ==
    /\ InDownloadLoop /\ client_connected
    /\ client_connected' = FALSE
    /\ UNCHANGED << eventVars, clockVars, backlog, running, pc, req, resp, json,
                    read_at, pings, scanVars, downloadVars, client_ready >>

\* The texts of the size argument explored.
SizeArgs == {
    << "0" >>,
    << "1", "0", "0" >>,
    << "4", "0", "9", "7" >>,
    << "2", "1", "4", "7", "4", "8", "3", "6", "4", "7" >>,
    << "2", "1", "4", "7", "4", "8", "3", "6", "4", "8" >>,
    << "a", "b", "c" >>,
    << >>,
    << " ", "1", "2", "k", "B" >>,
    << "-", "1" >>,
    << "-", "2" >> }

DownloadRequests ==
    { Request("GET", "/api/download", FALSE, << >>) } \cup
    { Request("GET", "/api/download", TRUE, a) : a \in SizeArgs }

\* The steps of the main task while it serves downloads.
MainDownload ==
    \/ handleClient(DownloadRequests)
    \/ handleDownload_begin
    \/ handleDownload_check
    \/ handleDownload_write
    \/ handleDownload_delay

NextDownload ==
    \/ Connect
    \/ MainDownload
    \/ ClientStall
    \/ ClientDrain
    \/ ClientDisconnect

\* The main task serving GET /api/download to clients that may stall or
\* leave.  The main task is a FreeRTOS task that is always ready to run, so
\* a step of it that stays possible is eventually taken.
SpecDownload == Init /\ [][NextDownload]_vars /\ WF_vars(MainDownload)

---------------------------------------------------------------------------
(* C2, C3, C4 and C10: the download.                                       *)

DownloadAnswered == req.path = "/api/download" /\ resp.code = 200

DownloadReturned == DownloadAnswered /\ pc = "poll"

\* A size argument that is the decimal text of a number S >= 0.
IsDecimalText(a) ==
    /\ Len(a) > 0
    /\ \A i \in 1..Len(a) : IsDigit(a[i])
    /\ Len(a) > 1 => a[1] # "0"

LongMaxText == << "2", "1", "4", "7", "4", "8", "3", "6", "4", "7" >>

OneMegabyteText == << "1", "0", "4", "8", "5", "7", "6" >>

\* What C2 says of a download whose size argument is the text of S, apart
\* from its termination: the Content-Length is S; no write asks for more
\* than 4096 bytes; every byte written is 0xAA; and when the handler has
\* returned with the client still connected, exactly S bytes were written.
DownloadExact ==
    /\ DownloadAnswered => resp.clen = req.sizeArg
    /\ ~LessLimbs(LimbsOf(4096, 2), max_write)
    /\ wire_vals \subseteq { 170 }
    /\ DownloadReturned /\ client_connected => Decimal(wire_len) = req.sizeArg

\* C2 as stated, termination apart: for every size S >= 0 given as the size
\* parameter, the declared Content-Length is S, each write requests at most
\* 4096 bytes of value 0xAA, and a client that stays connected has received
\* exactly S bytes when the handler returns.
C2_EverySizeExact ==
    req.hasSize /\ IsDecimalText(req.sizeArg) => DownloadExact

\* C2 as amended: for every size S with 0 <= S <= 2^31 - 1 given as the size
\* parameter, the declared Content-Length is S, each write requests at most
\* 4096 bytes of value 0xAA, and a client that stays connected has received
\* exactly S bytes when the handler returns; and the handler does return if
\* from some time on the client stays connected and accepts bytes.
C2_SizeUpToLongMaxExact ==
    /\ [](req.hasSize /\ IsDecimalText(req.sizeArg)
             /\ ~DecimalLT(LongMaxText, req.sizeArg) => DownloadExact)
    /\ <>[](client_connected /\ client_ready) => []<>(pc = "poll")

\* A download of 4097 bytes that took a full buffer and a last byte, with a
\* short write on the way.
C2_Witness ==
    /\ DownloadReturned /\ client_connected
    /\ req.sizeArg = << "4", "0", "9", "7" >>
    /\ wire_len = LimbsOf(4097, 2)
    /\ max_write = LimbsOf(4096, 2)
    /\ nShort = 1

\* C3: a download requested with no size parameter declares a Content-Length
\* of 1,048,576, and a client that stays connected has received exactly
\* 1,048,576 bytes when the handler returns.
C3_DefaultOneMegabyte ==
    ~req.hasSize =>
        /\ DownloadAnswered => resp.clen = OneMegabyteText
        /\ DownloadReturned /\ client_connected
              => /\ wire_len = << 0, 16 >>
                 /\ Decimal(wire_len) = OneMegabyteText

\* A default download that ran to its end, through a stall and a short write.
C3_Witness ==
    /\ DownloadReturned /\ client_connected /\ ~req.hasSize
    /\ wire_len = << 0, 16 >>
    /\ nShort = 1

\* A size argument with no digit in it.
IsNonNumeric(a) == \A i \in 1..Len(a) : ~IsDigit(a[i])

C4_NonNumericIsZero ==
    req.path = "/api/download" /\ req.hasSize /\ IsNonNumeric(req.sizeArg) =>
        /\ resp.code \in { 0, 200 }
        /\ pc \notin { "call" } => resp.code = 200 /\ resp.clen = << "0" >>
        /\ IsZero(wire_len) /\ IsZero(max_write)
        /\ pc \notin { "dl_write", "dl_delay" }

\* The download of size=abc has returned: length 0 declared, nothing sent.
C4_Witness ==
    /\ DownloadReturned
    /\ req.hasSize /\ req.sizeArg = << "a", "b", "c" >>
    /\ resp.clen = << "0" >>
    /\ IsZero(wire_len)

\* C10: in handleDownload a write that accepts no byte leaves the sent count
\* unchanged and is followed by another attempt, without limit: if the
\* client stays connected and never accepts another byte while sent < size,
\* the handler never returns, and the main task serves no later request (a
\* request is taken up only from the polling position).
C10_StalledDownloadNeverReturns ==
    /\ [][InDownloadLoop /\ wire_len' = wire_len => sent' = sent]_vars
    /\ [][pc = "dl_delay" => pc' \in { "dl_delay", "dl_check" }]_vars
    /\ []((InDownloadLoop /\ LessLimbs(sent, size)
              /\ [](client_connected /\ ~client_ready))
            => [](InDownloadLoop /\ LessLimbs(sent, size)))
    /\ [][req' # req \/ backlog' < backlog => pc = "poll"]_vars

\* A stalled download waiting to retry, with another connection waiting.
C10_Witness ==
    /\ InDownload /\ pc = "dl_delay"
    /\ client_connected /\ ~client_ready
    /\ LessLimbs(sent, size) /\ ~IsZero(sent)
    /\ backlog = 1

---------------------------------------------------------------------------
(* The whole program.                                                      *)

\* One request per method and path; the download asks for 100 bytes.
DispatchRequests ==
    { Request(m, p, p = "/api/download",
              IF p = "/api/download" THEN << "1", "0", "0" >> ELSE << >>) :
          m \in Methods, p \in Paths }

\* The steps of the handlers.
Handlers ==
    \/ handleRoot
    \/ handleStatus_build
    \/ handleStatus_send
    \/ handleScan_scan
    \/ handleScan_send
    \/ handleScan_delete
    \/ handlePing
    \/ handleDownload_begin
    \/ handleDownload_check
    \/ handleDownload_write
    \/ handleDownload_delay
    \/ handleUpload
    \/ handleClients
    \/ handleNotFound

\* The steps of the clients and of the platform.
Environment ==
    \/ Connect
    \/ ClientStall
    \/ ClientDrain
    \/ ClientDisconnect

\* One event the callback counts and one it ignores.
DispatchEvents == { "AP_STADISCONNECTED", "SCAN_DONE" }

NextDispatch ==
    \/ handleClient(DispatchRequests)
    \/ Handlers
    \/ Environment
    \/ \E e \in DispatchEvents : onWiFiEvent(e)

\* The main task serving every kind of request, with the event task.
SpecDispatch == Init /\ [][NextDispatch]_vars

Next ==
    \/ handleClient(PlainRequests \cup DownloadRequests)
    \/ Handlers
    \/ Environment
    \/ \E e \in EventTypes : onWiFiEvent(e) \/ onWiFiEventRun(e)
    \/ \E dt \in TickSteps : Tick(dt)

Spec == Init /\ [][Next]_vars

---------------------------------------------------------------------------
(* C5, C6 and C9: routing, run to completion, the scan.                    *)

\* The registered (method, path) pairs and the handler each names.
Registered ==
    [pair \in { << "GET", "/" >>, << "GET", "/api/status" >>,
                << "GET", "/api/scan" >>, << "GET", "/api/ping" >>,
                << "GET", "/api/download" >>, << "POST", "/api/upload" >>,
                << "GET", "/api/clients" >> } |->
        CASE pair[2] = "/"              -> "handleRoot"
          [] pair[2] = "/api/status"    -> "handleStatus"
          [] pair[2] = "/api/scan"      -> "handleScan"
          [] pair[2] = "/api/ping"      -> "handlePing"
          [] pair[2] = "/api/download"  -> "handleDownload"
          [] pair[2] = "/api/upload"    -> "handleUpload"
          [] pair[2] = "/api/clients"   -> "handleClients"]

IsRegistered(r) == << r.method, r.path >> \in DOMAIN Registered

RequestAnswered == pc = "poll" /\ req # NoRequest

\* C5: a request whose (method, path) is not a registered pair, a registered
\* path with another method included, is handled by handleNotFound and
\* answered 404 "404: Not Found"; a request that is a registered pair is
\* handled by that pair's handler, never by handleNotFound, and answered 200.
C5_UnmatchedIsNotFound ==
    /\ running # << >> =>
          Top(running) = IF IsRegistered(req)
                         THEN Registered[<< req.method, req.path >>]
                         ELSE "handleNotFound"
    /\ RequestAnswered /\ ~IsRegistered(req) =>
          /\ resp.code = 404
          /\ resp.ctype = "text/plain"
          /\ resp.body = << "404: Not Found" >>
    /\ RequestAnswered /\ IsRegistered(req) => resp.code = 200

\* A registered path asked for with the wrong method was answered 404.
C5_Witness ==
    /\ RequestAnswered
    /\ req.method = "POST" /\ req.path = "/api/status"
    /\ resp.code = 404
    /\ resp.body = << "404: Not Found" >>

\* The variables a handler writes.
handlerVars == << resp, json, read_at, pings, scanVars, downloadVars >>

\* C6: at most one handler is in progress at any time; a request is taken up
\* only when no handler is in progress and the main task is polling, and
\* the request in hand stays the same until its handler has returned; while
\* a handler is in progress the program's only other steps are the event
\* callback's, which touch the counter and nothing a handler writes.
C6_RunToCompletion ==
    /\ [](Len(running) <= 1)
    /\ [](running # << >> <=> pc # "poll")
    /\ [][req' # req => running = << >> /\ pc = "poll" /\ Len(running') = 1]_vars
    /\ [][running # << >> /\ running' # running => running' = << >> /\ pc' = "poll"]_vars
    /\ [][nEvents' # nEvents => UNCHANGED << running, pc, req, handlerVars >>]_vars

\* The callback has counted a disconnect in the middle of handleScan, with
\* another connection waiting.
C6_Witness ==
    /\ running = << "handleScan" >> /\ pc = "scan_delete"
    /\ last_event = "AP_STADISCONNECTED" /\ disconnect_count = One32
    /\ backlog = 1

ScanAnswered == req.method = "GET" /\ req.path = "/api/scan" /\ resp.code = 200

\* C9: every GET /api/scan releases the scan result buffer after the
\* response is sent and before the handler returns, whatever the scan found,
\* so that no buffer is held while the main task polls; and the array in the
\* response has exactly as many entries as the scanner reported.
C9_ScanReleasedAndCounted ==
    /\ pc = "poll" => ~scan_held
    /\ scan_log \in { << >>, << "send" >>, << "send", "delete" >> }
    /\ ScanAnswered /\ pc = "poll" => scan_log = << "send", "delete" >>
    /\ ScanAnswered /\ scan_n >= 0 => ArrayLength(resp.body) = scan_n

\* The part of C9 that is about the buffer alone.
ScanBufferReleased ==
    /\ pc = "poll" => ~scan_held
    /\ scan_log \in { << >>, << "send" >>, << "send", "delete" >> }
    /\ ScanAnswered /\ pc = "poll" => scan_log = << "send", "delete" >>

\* The entries are counted right when no SSID holds a quotation mark.
ScanCountedForPlainSsids ==
    ScanAnswered /\ scan_n >= 0
        /\ (\A i \in 1..Len(scan_list) : \A k \in 1..Len(scan_list[i].ssid) :
               scan_list[i].ssid[k] # Q)
        /\ pc = "scan_delete"
      => ArrayLength(resp.body) = scan_n

---------------------------------------------------------------------------
(* C11 and C12: the download loop.                                         *)

\* A step that returns from handleDownload.
DownloadReturns == InDownload /\ pc' = "poll"

\* The client has gone while part of the body is still to be sent.
ClosedEarly == InDownloadLoop /\ ~client_connected /\ LessLimbs(sent, size)

\* C11: handleDownload returns only when the sent count equals the size it
\* declared or the client is no longer connected.  If the client disconnects
\* while sent < size the connection stays closed, a write attempted after
\* that sends nothing and is the only one, the connection check that follows
\* ends the handler, and the handler does return: with fewer body bytes on
\* the wire than the size declared, and with the 200 response of the start
\* as the only response sent.
C11_ReturnsWhenDoneOrClosed ==
    /\ [][DownloadReturns => sent = size \/ ~client_connected]_vars
    /\ [][ClosedEarly => ~client_connected']_vars
    /\ [][ClosedEarly /\ pc = "dl_write" /\ pc' # pc =>
              pc' = "dl_delay" /\ UNCHANGED << sent, wire_len >>]_vars
    /\ [][ClosedEarly /\ pc = "dl_delay" /\ pc' # pc => pc' = "dl_check"]_vars
    /\ [][ClosedEarly /\ pc = "dl_check" /\ pc' # pc => pc' = "poll"]_vars
    /\ [][ClosedEarly /\ DownloadReturns =>
              /\ LessLimbs(wire_len', size')
              /\ wire_len' = sent'
              /\ resp' = resp /\ resp.code = 200]_vars
    /\ [][InDownloadLoop => resp' = resp]_vars
    /\ ClosedEarly ~> pc = "poll"

\* A download has returned after the client left with part of the body.
C11_Witness ==
    /\ DownloadReturned
    /\ ~client_connected
    /\ ~IsZero(sent) /\ LessLimbs(sent, size)
    /\ wire_len = sent
    /\ resp.code = 200

\* The smaller of two 32-bit numbers.
MinLimbs(a, b) == IF LessLimbs(b, a) THEN b ELSE a

\* C12: throughout handleDownload, partial and zero-byte writes included,
\* the number of bytes sent so far never decreases and never exceeds the
\* size declared, 0 <= sent <= size in every state; each write requests
\* min(4096, size - sent) bytes, and sent grows by no more than that.
C12_SentWithinSize ==
    /\ [](~LessLimbs(size, sent))
    /\ [](sent \in (0..(Base - 1)) \X (0..(Base - 1)))
    /\ [][InDownloadLoop => ~LessLimbs(sent', sent)]_vars
    /\ [][InDownload /\ pc = "dl_write" /\ pc' # pc =>
              /\ toSend' = MinLimbs(LimbsOf(4096, 2), SubLimbs(size, sent))
              /\ ~LessLimbs(toSend', SubLimbs(sent', sent))]_vars

\* A write has accepted nothing after a partial write, with the download
\* under way and the client connected.
C12_Witness ==
    /\ InDownload /\ pc = "dl_delay"
    /\ client_connected
    /\ nShort = 1
    /\ ~IsZero(sent) /\ LessLimbs(sent, size)
    /\ toSend = LimbsOf(4096, 2)

===========================================================================
